---------------------------- MODULE Spec2Model ----------------------------
(***************************************************************************)
(* RTKkey: the refresh coordinator (coordinator.py) and the open-door      *)
(* button (button.py) as a state machine.                                  *)
(*                                                                         *)
(* A coroutine runs atomically between two awaits, so every action below   *)
(* is the code from one suspension point to the next: a refresh cycle is   *)
(* RefreshStart (up to the device GET), DevicesResponse (up to the event   *)
(* GET, or to the end when no event request is made) and EventsResponse;   *)
(* a button press is PressStart (up to the POST), PressResponse (up to     *)
(* the awaited refresh request) and the end of that await.                 *)
(***************************************************************************)
EXTENDS Integers, Sequences, FiniteSets, TLC

(***************************************************************************)
(* Bounds of the model.                                                    *)
(***************************************************************************)
\* longest raw device list a device-listing response carries
MaxDevs == 2
\* longest raw event list an event-listing response carries
MaxEvents == 2

(***************************************************************************)
(* JSON scalars that are used as ids.  A value is null, a string or an     *)
(* integer; s is the text of the string, or the decimal text of the        *)
(* integer, so that str() and truthiness can be computed.                  *)
(***************************************************************************)
Null == [t |-> "null", s |-> ""]
StrV(x) == [t |-> "str", s |-> x]
IntV(x) == [t |-> "int", s |-> x]

\* Python truthiness of an id: None, "" and 0 are falsy
Truthy(v) == v.t # "null" /\ v.s # "" /\ ~(v.t = "int" /\ v.s = "0")

\* Python str() of an id
Str(v) == IF v.t = "null" THEN "None" ELSE v.s

DEVICE_TYPE_INTERCOM == "intercom"
DEVICE_TYPE_GATE == "gate"

(***************************************************************************)
(* Entries of a raw device list: JSON objects with an id and a             *)
(* device_type, or something that is not an object.                        *)
(***************************************************************************)
Dev(id, ty) == [obj |-> TRUE, id |-> id, device_type |-> ty]
NonObjDev == [obj |-> FALSE, id |-> Null, device_type |-> ""]

RawDevEntries ==
    { Dev(IntV("1"), DEVICE_TYPE_INTERCOM),
      Dev(Null, DEVICE_TYPE_GATE),
      Dev(StrV("3"), "camera"),
      NonObjDev }

(***************************************************************************)
(* Entries of a raw event list.                                            *)
(***************************************************************************)
\* raised_at: missing (or null), a text that is no date, or an ISO-8601 date
\* with a wall-clock reading and a UTC offset in hours
NoTime == [k |-> "none", wall |-> 0, off |-> 0]
BadTime == [k |-> "bad", wall |-> 0, off |-> 0]
Iso(w, o) == [k |-> "iso", wall |-> w, off |-> o]

Ev(id, at) == [obj |-> TRUE, device_id |-> id, raised_at |-> at]
NonObjEv == [obj |-> FALSE, device_id |-> Null, raised_at |-> NoTime]

RawEvEntries ==
    { Ev(IntV("1"), Iso(1, 0)),
      Ev(Null, Iso(2, 0)),
      NonObjEv }

SeqsUpTo(S, n) == UNION { [1..k -> S] : k \in 0..n }

RawDevLists == SeqsUpTo(RawDevEntries, MaxDevs)
RawEvLists == SeqsUpTo(RawEvEntries, MaxEvents)
ShortDevLists == { L \in RawDevLists : Len(L) <= 1 }
ShortEvLists == { L \in RawEvLists : Len(L) <= 1 }

(***************************************************************************)
(* JSON values by shape.  A key of an object is absent, holds a list,      *)
(* holds an object, or holds something else (a string, a number, null).    *)
(***************************************************************************)
Absent == [t |-> "absent"]
Other == [t |-> "other"]
ListV(L) == [t |-> "list", items |-> L]
InnerDict(dv, it) == [t |-> "dict", devices |-> dv, items |-> it]
TopDict(d, dv, it, ev) ==
    [t |-> "dict", data |-> d, devices |-> dv, items |-> it, events |-> ev]
\* a body response.json() cannot decode
BadJson == [t |-> "badjson"]
\* a decoded body that is not an object
TopList == [t |-> "toplist"]

IsList(j) == j.t = "list"
IsDict(j) == j.t = "dict"


(***************************************************************************)
(* What the vendor API can answer.  A call ends in an HTTP status with a   *)
(* body, in a timeout of its async_timeout block, or in a connection       *)
(* error (aiohttp.ClientError).                                            *)
(***************************************************************************)
Http(st, b) == [kind |-> "http", status |-> st, body |-> b]
TimedOut == [kind |-> "timeout", status |-> 0, body |-> Absent]
ConnErr == [kind |-> "connerr", status |-> 0, body |-> Absent]

EmptyObj == TopDict(Absent, Absent, Absent, Absent)

\* device-listing bodies: data.devices over every raw list, the two other
\* shapes over the short ones, and the bodies with no list anywhere
DevBodies ==
    { TopDict(InnerDict(ListV(L), Absent), Absent, Absent, Absent) : L \in RawDevLists }
    \cup { TopDict(Absent, ListV(L), Absent, Absent) : L \in ShortDevLists }
    \cup { TopDict(ListV(L), Absent, Absent, Absent) : L \in ShortDevLists }
    \cup
    { TopDict(d, x, Absent, Absent) :
        d \in {Absent, Other, InnerDict(Absent, Absent), InnerDict(Other, Absent)},
        x \in {Absent, Other} }

DevResponses ==
    { Http(200, b) : b \in DevBodies \cup {BadJson, TopList} }
    \cup { Http(st, Absent) : st \in {401, 500} }
    \cup { TimedOut, ConnErr }

\* event-listing bodies: data.items over every raw list, the shapes items,
\* events and data-as-list over the short ones, and bodies with no list
EvBodies ==
    { TopDict(InnerDict(Absent, ListV(L)), Absent, Absent, Absent) : L \in RawEvLists }
    \cup { TopDict(Absent, Absent, ListV(L), Absent) : L \in ShortEvLists }
    \cup { TopDict(Absent, Absent, Absent, ListV(L)) : L \in ShortEvLists }
    \cup { TopDict(ListV(L), Absent, Absent, Absent) : L \in ShortEvLists }
    \cup { EmptyObj, TopDict(Other, Absent, Other, Other) }

EvResponses ==
    { Http(200, b) : b \in EvBodies \cup {BadJson, TopList} }
    \cup { Http(400, b) : b \in {EmptyObj, BadJson} }
    \cup { Http(st, Absent) : st \in {401, 500} }
    \cup { TimedOut, ConnErr }

(***************************************************************************)
(* Results of a call: a returned value, or a raised exception of a class   *)
(* with a message (a sequence of its parts).                               *)
(***************************************************************************)
Ret(v) == [ok |-> TRUE, value |-> v, cls |-> "", msg |-> <<>>]
Raise(c, m) == [ok |-> FALSE, value |-> <<>>, cls |-> c, msg |-> m]

(***************************************************************************)
(* _parse_devices                                                          *)
(***************************************************************************)
\* the filter of the list comprehension: an object of a known device type
ValidDevice(device) ==
    device.obj /\ device.device_type \in {DEVICE_TYPE_INTERCOM, DEVICE_TYPE_GATE}

\* variant: a list given directly as data is not looked at
LocateDevices_NoDataList(data) ==
    IF IsDict(data.data)
    THEN IF IsList(data.data.devices) THEN data.data.devices.items ELSE <<>>
    ELSE IF IsList(data.devices) THEN data.devices.items
    ELSE <<>>

\* the if / elif / elif chain that locates the raw list
LocateDevices(data) ==
    IF IsDict(data.data)
    THEN IF IsList(data.data.devices) THEN data.data.devices.items ELSE <<>>
    ELSE IF IsList(data.devices) THEN data.devices.items
    ELSE IF IsList(data.data) THEN data.data.items
    ELSE <<>>

parse_devices(data) ==
    IF ~IsDict(data)
    THEN Raise("UpdateFailed", <<"Expected dictionary response">>)
    ELSE Ret(SelectSeq(LocateDevices(data), ValidDevice))

(***************************************************************************)
(* _fetch_devices, from the answer of the GET on                           *)
(***************************************************************************)
\* variant: an answer that is not a usable device list yields [] instead of
\* raising
fetch_devices_EmptyOnError(r) ==
    IF r.kind = "http" /\ r.status = 200 /\ r.body # BadJson /\ IsDict(r.body)
    THEN parse_devices(r.body)
    ELSE Ret(<<>>)

fetch_devices(r) ==
    IF r.kind = "timeout" THEN Raise("TimeoutError", <<>>)
    ELSE IF r.kind = "connerr" THEN Raise("ClientError", <<>>)
    ELSE IF r.status = 200
    THEN IF r.body = BadJson
         THEN Raise("ClientError", <<"ContentTypeError">>)
         ELSE parse_devices(r.body)
    ELSE IF r.status = 401
    THEN Raise("UpdateFailed", <<"Invalid authentication">>)
    ELSE Raise("UpdateFailed", <<"API error">>)

(***************************************************************************)
(* The except clauses of _async_update_data: what it raises for an         *)
(* exception raised inside its try block.                                  *)
(***************************************************************************)
UpdateDataExcept(e) ==
    IF e.cls = "ClientError"
    THEN Raise("UpdateFailed", <<"Error communicating with API">>)
    ELSE IF e.cls = "TimeoutError"
    THEN Raise("UpdateFailed", <<"Timeout communicating with API">>)
    ELSE Raise("UpdateFailed", <<"Unexpected error">> \o e.msg)

(***************************************************************************)
(* _fetch_events, before its request: the ids it asks events for.          *)
(***************************************************************************)
\* variant: only the first device with an id is asked for
RECURSIVE DeviceIds_FirstOnly(_)
DeviceIds_FirstOnly(devs) ==
    IF devs = <<>> THEN <<>>
    ELSE LET device == Head(devs)
         IN IF Truthy(device.id)
               /\ device.device_type \in {DEVICE_TYPE_INTERCOM, DEVICE_TYPE_GATE}
            THEN <<Str(device.id)>> ELSE DeviceIds_FirstOnly(Tail(devs))

RECURSIVE DeviceIds(_)
DeviceIds(devs) ==
    IF devs = <<>> THEN <<>>
    ELSE LET device == Head(devs)
         IN (IF Truthy(device.id)
                /\ device.device_type \in {DEVICE_TYPE_INTERCOM, DEVICE_TYPE_GATE}
             THEN <<Str(device.id)>> ELSE <<>>) \o DeviceIds(Tail(devs))

(***************************************************************************)
(* _parse_events                                                           *)
(***************************************************************************)
EmptyMap == <<>>

\* variant: the top-level events list is tried before the top-level items
LocateEvents_EventsBeforeItems(data) ==
    LET first == IF IsDict(data.data) /\ IsList(data.data.items)
                 THEN data.data.items.items ELSE <<>>
    IN IF first # <<>> THEN first
       ELSE IF IsList(data.events) THEN data.events.items
       ELSE IF IsList(data.items) THEN data.items.items
       ELSE IF IsList(data.data) THEN data.data.items
       ELSE first

\* data.items if it is a non-empty list ("if not events_list" sends an
\* empty one on to the alternatives), else the elif chain items / events /
\* data-as-list
LocateEvents(data) ==
    LET first == IF IsDict(data.data) /\ IsList(data.data.items)
                 THEN data.data.items.items ELSE <<>>
    IN IF first # <<>> THEN first
       ELSE IF IsList(data.items) THEN data.items.items
       ELSE IF IsList(data.events) THEN data.events.items
       ELSE IF IsList(data.data) THEN data.data.items
       ELSE first

\* variant: a further event of a device is put in front of the earlier ones
RECURSIVE GroupEvents_Prepend(_, _)
GroupEvents_Prepend(L, acc) ==
    IF L = <<>> THEN acc
    ELSE LET event == Head(L)
             key == Str(event.device_id)
             next == IF event.obj /\ Truthy(event.device_id)
                     THEN IF key \in DOMAIN acc
                          THEN [acc EXCEPT ![key] = <<event>> \o @]
                          ELSE [k \in DOMAIN acc \cup {key} |->
                                   IF k = key THEN <<event>> ELSE acc[k]]
                     ELSE acc
         IN GroupEvents_Prepend(Tail(L), next)

\* the grouping loop: events_by_device after the events of list L
RECURSIVE GroupEvents(_, _)
GroupEvents(L, acc) ==
    IF L = <<>> THEN acc
    ELSE LET event == Head(L)
             key == Str(event.device_id)
             next == IF event.obj /\ Truthy(event.device_id)
                     THEN IF key \in DOMAIN acc
                          THEN [acc EXCEPT ![key] = Append(@, event)]
                          ELSE [k \in DOMAIN acc \cup {key} |->
                                   IF k = key THEN <<event>> ELSE acc[k]]
                     ELSE acc
         IN GroupEvents(Tail(L), next)

parse_events(data) ==
    IF ~IsDict(data) THEN EmptyMap
    ELSE GroupEvents(LocateEvents(data), EmptyMap)

(***************************************************************************)
(* _fetch_events, from the answer of the GET on: every branch returns.     *)
(***************************************************************************)
\* variant: an event-listing failure is raised instead of swallowed
fetch_events_RaiseOnError(r) ==
    IF r.kind = "http" /\ r.status = 200 /\ r.body # BadJson
    THEN Ret(parse_events(r.body))
    ELSE Raise("UpdateFailed", <<"Failed to fetch events">>)

fetch_events(r) ==
    IF r.kind = "timeout" THEN Ret(EmptyMap)
    ELSE IF r.kind = "connerr" THEN Ret(EmptyMap)
    ELSE IF r.status = 200
    THEN IF r.body = BadJson THEN Ret(EmptyMap) ELSE Ret(parse_events(r.body))
    ELSE Ret(EmptyMap)

(***************************************************************************)
(* What a cycle was answered, for the properties to speak about: the kind  *)
(* of the device-listing answer and of the event-listing answer.           *)
(***************************************************************************)
\* a device body holds a list at one of the three documented places
HasDeviceShape(b) ==
    \/ IsDict(b.data) /\ IsList(b.data.devices)
    \/ IsList(b.devices)
    \/ IsList(b.data)

DevCause(r) ==
    IF r.kind # "http" THEN r.kind
    ELSE IF r.status = 401 THEN "http401"
    ELSE IF r.status # 200 THEN "httpOther"
    ELSE IF r.body = BadJson THEN "badjson"
    ELSE IF ~IsDict(r.body) THEN "nonobject"
    ELSE IF ~HasDeviceShape(r.body) THEN "noshape"
    ELSE "ok"

EvCause(r) ==
    IF r.kind # "http" THEN r.kind
    ELSE IF r.status = 401 THEN "http401"
    ELSE IF r.status = 400 THEN "http400"
    ELSE IF r.status # 200 THEN "httpOther"
    ELSE IF r.body = BadJson THEN "badjson"
    ELSE IF ~IsDict(r.body) THEN "nonobject"
    ELSE "ok"

(***************************************************************************)
(* State.                                                                  *)
(*   data, last_update_success, last_exception: the attributes the         *)
(*     DataUpdateCoordinator base class keeps (the published snapshot and  *)
(*     how the last refresh ended)                                         *)
(*   devices: the coordinator's own devices attribute                      *)
(*   pc: where the refresh cycle is ("idle", "devices", "events")          *)
(*   cyc: the cycle's local variable devices, the ids and the number of    *)
(*     its event-listing requests, and what it was answered                *)
(*   refresh_requested: async_request_refresh() was called and no cycle    *)
(*     has started since                                                   *)
(*   press: the button press in progress, or how the last one ended        *)
(***************************************************************************)
VARIABLES data, devices, last_update_success, last_exception, pc, cyc,
          refresh_requested, press

vars == <<data, devices, last_update_success, last_exception, pc, cyc,
          refresh_requested, press>>

(***************************************************************************)
(* State of the other specifications of this module; Spec leaves it as it  *)
(* is.                                                                     *)
(*   fn: the last application of one of the pure functions (SpecPure)      *)
(*   entry: the set-up of the config entry: where async_setup_entry is,    *)
(*     whether the coordinator is stored in hass.data, the entities the    *)
(*     two platforms added (each held as its device), and the state of     *)
(*     every sensor (SpecSetup)                                            *)
(*   backend: the answers of an unchanged backend, and pubs: the snapshots *)
(*     published against it (SpecIdem)                                     *)
(*   config: the data stored in the config entry, i.e. the bearer token    *)
(*     and the update interval (SpecReauth)                                *)
(***************************************************************************)
VARIABLES fn, entry, backend, pubs, config

aux == <<fn, entry, backend, pubs, config>>
allvars == <<vars, aux>>

NoCall == [op |-> "none"]
NoEntry ==
    [pc |-> "unloaded", registered |-> FALSE, buttons |-> <<>>, sensors |-> <<>>,
     states |-> <<>>, button_error |-> FALSE]
NoBackend == [dev |-> TimedOut, ev |-> TimedOut]

DEFAULT_UPDATE_INTERVAL == 5

\* entry.data: the token, and the interval as a number or missing
Interval(n) == [t |-> "int", n |-> n]
Config(token, interval) == [bearer_token |-> token, update_interval |-> interval]

\* what async_step_user stores when the form is left at its defaults
DefaultConfig == Config("t1", Interval(DEFAULT_UPDATE_INTERVAL))

NoData == [set |-> FALSE, devices |-> <<>>, events |-> EmptyMap]
Snapshot(d, e) == [set |-> TRUE, devices |-> d, events |-> e]
NoException == [cls |-> "None", msg |-> <<>>]

NewCycle == [devices |-> <<>>, ids |-> <<>>, reqs |-> 0, dev |-> "pending", ev |-> "none"]
NoPress ==
    [pc |-> "idle", resp |-> "none", log |-> "none", end |-> "none",
     requested |-> FALSE, posts |-> 0]

\* RTKkeyDataUpdateCoordinator.__init__
Init ==
    /\ data = NoData
    /\ devices = <<>>
    /\ last_update_success = TRUE
    /\ last_exception = NoException
    /\ pc = "idle"
    /\ cyc = NewCycle
    /\ refresh_requested = FALSE
    /\ press = NoPress
    /\ fn = NoCall
    /\ entry = NoEntry
    /\ backend = NoBackend
    /\ pubs = <<>>
    /\ config = DefaultConfig

(***************************************************************************)
(* How the base class ends a refresh: self.data = await                    *)
(* self._async_update_data() publishes the returned dictionary; an         *)
(* UpdateFailed leaves data as it was and records the failure.             *)
(***************************************************************************)
\* variant: the devices of a new result are added to the ones already held
Publish_Accumulating(result) ==
    /\ data' = [result EXCEPT !.devices = data.devices \o @]
    /\ last_update_success' = TRUE
    /\ last_exception' = NoException

Publish(result) ==
    /\ data' = result
    /\ last_update_success' = TRUE
    /\ last_exception' = NoException

Fail(e) ==
    /\ UNCHANGED data
    /\ last_update_success' = FALSE
    /\ last_exception' = [cls |-> e.cls, msg |-> e.msg]

(***************************************************************************)
(* _async_update_data                                                      *)
(***************************************************************************)
\* a cycle starts (a scheduled tick, the first refresh, or a requested one)
\* and runs up to the GET of the device list
RefreshStart ==
    /\ pc = "idle"
    /\ pc' = "devices"
    /\ cyc' = NewCycle
    /\ refresh_requested' = FALSE
    /\ UNCHANGED <<data, devices, last_update_success, last_exception, press>>

\* _fetch_events returns {} before any request: `if not devices` and
\* `if not device_ids`
NoEventRequest_Never(devs) == FALSE

NoEventRequest(devs) == devs = <<>> \/ DeviceIds(devs) = <<>>

\* the device list is answered: _fetch_devices ends, self.devices is set and
\* _fetch_events runs up to its GET, or returns {} without one
DevicesResponse(r) ==
    /\ pc = "devices"
    /\ LET res == fetch_devices(r)
           ids == DeviceIds(res.value)
       IN IF ~res.ok
          THEN /\ Fail(UpdateDataExcept(res))
               /\ pc' = "idle"
               /\ cyc' = [cyc EXCEPT !.dev = DevCause(r)]
               /\ UNCHANGED devices
          ELSE /\ devices' = res.value
               /\ IF NoEventRequest(res.value)
                  THEN /\ Publish(Snapshot(res.value, EmptyMap))
                       /\ pc' = "idle"
                       /\ cyc' = [cyc EXCEPT !.dev = DevCause(r),
                                             !.devices = res.value]
                  ELSE /\ pc' = "events"
                       /\ cyc' = [cyc EXCEPT !.dev = DevCause(r),
                                             !.devices = res.value,
                                             !.ids = ids,
                                             !.reqs = @ + 1]
                       /\ UNCHANGED <<data, last_update_success, last_exception>>
    /\ UNCHANGED <<refresh_requested, press>>

\* the event list is answered: _fetch_events ends and the result is returned
EventsResponse(r) ==
    /\ pc = "events"
    /\ LET res == fetch_events(r)
       IN IF res.ok
          THEN Publish(Snapshot(cyc.devices, res.value))
          ELSE Fail(UpdateDataExcept(res))
    /\ pc' = "idle"
    /\ cyc' = [cyc EXCEPT !.ev = EvCause(r)]
    /\ UNCHANGED <<devices, refresh_requested, press>>

(***************************************************************************)
(* RTKkeyOpenButton.async_press                                            *)
(***************************************************************************)
\* device ids a button can hold
ButtonIds == { IntV("1"), Null }

PostResponses == { Http(st, Absent) : st \in {200, 401, 500} } \cup { TimedOut, ConnErr }

PostCause(r) ==
    IF r.kind # "http" THEN r.kind
    ELSE IF r.status = 200 THEN "http200"
    ELSE IF r.status = 401 THEN "http401"
    ELSE "httpOther"

\* variant: every status but 401 counts as accepted
PostAccepted_Not401(r) == r.kind = "http" /\ r.status # 401

\* if response.status == 200
PostAccepted(r) == r.kind = "http" /\ r.status = 200

\* how the handler ends when its try block raises exception class c: the
\* first clause catches aiohttp.ClientError; the second names
\* asyncio.TimeoutError, and button.py does not import asyncio, so evaluating
\* the clause raises NameError
PressExcept(c) ==
    IF c = "ClientError" THEN [log |-> "client error", end |-> "returned"]
    ELSE [log |-> "none", end |-> "NameError"]

PressStart(id) ==
    /\ press.pc = "idle"
    /\ IF ~Truthy(id)
       THEN press' = [NoPress EXCEPT !.log = "missing id", !.end = "returned"]
       ELSE press' = [NoPress EXCEPT !.pc = "post", !.resp = "pending",
                                     !.end = "pending", !.posts = 1]
    /\ UNCHANGED <<data, devices, last_update_success, last_exception, pc, cyc,
                   refresh_requested>>

PressResponse(r) ==
    /\ press.pc = "post"
    /\ IF r.kind = "http"
       THEN IF PostAccepted(r)
            THEN /\ press' = [press EXCEPT !.pc = "refresh", !.resp = PostCause(r),
                                           !.log = "success", !.requested = TRUE]
                 /\ refresh_requested' = TRUE
            ELSE /\ press' = [press EXCEPT !.pc = "idle", !.resp = PostCause(r),
                                           !.log = "error", !.end = "returned"]
                 /\ UNCHANGED refresh_requested
       ELSE LET h == PressExcept(IF r.kind = "timeout" THEN "TimeoutError"
                                 ELSE "ClientError")
            IN /\ press' = [press EXCEPT !.pc = "idle", !.resp = PostCause(r),
                                         !.log = h.log, !.end = h.end]
               /\ UNCHANGED refresh_requested
    /\ UNCHANGED <<data, devices, last_update_success, last_exception, pc, cyc>>

\* await self.coordinator.async_request_refresh() returns
PressRefreshReturn ==
    /\ press.pc = "refresh"
    /\ press' = [press EXCEPT !.pc = "idle", !.end = "returned"]
    /\ UNCHANGED <<data, devices, last_update_success, last_exception, pc, cyc,
                   refresh_requested>>

\* the await is inside async_timeout.timeout(10): the timeout expires first
\* (the success line is already logged)
PressRefreshTimeout ==
    /\ press.pc = "refresh"
    /\ press' = [press EXCEPT !.pc = "idle", !.end = PressExcept("TimeoutError").end]
    /\ UNCHANGED <<data, devices, last_update_success, last_exception, pc, cyc,
                   refresh_requested>>

Next ==
    \/ RefreshStart /\ UNCHANGED aux
    \/ \E r \in DevResponses : DevicesResponse(r) /\ UNCHANGED aux
    \/ \E r \in EvResponses : EventsResponse(r) /\ UNCHANGED aux
    \/ \E id \in ButtonIds : PressStart(id) /\ UNCHANGED aux
    \/ \E r \in PostResponses : PressResponse(r) /\ UNCHANGED aux
    \/ PressRefreshReturn /\ UNCHANGED aux
    \/ PressRefreshTimeout /\ UNCHANGED aux

Spec == Init /\ [][Next]_allvars

(***************************************************************************)
(* The pure functions, applied to inputs drawn from bounded sets           *)
(* (SpecPure): every action applies one function once, from the initial    *)
(* state, and records the input and the result in fn.                      *)
(***************************************************************************)
\* longest event list given to _parse_events and to the event selection
MaxLen == 3

PureUnchanged == UNCHANGED <<vars, entry, backend, pubs, config>>

\* the three documented places of the device list, for one raw list L
NestedUnderData(L) == TopDict(InnerDict(ListV(L), Absent), Absent, Absent, Absent)
TopLevelDevices(L) == TopDict(Absent, ListV(L), Absent, Absent)
DataAsList(L) == TopDict(ListV(L), Absent, Absent, Absent)

\* _parse_devices on the same raw list delivered in each of the three shapes
ParseDevicesShapes(L) ==
    /\ fn.op = "none"
    /\ fn' = [op |-> "parse_devices_shapes", raw |-> L,
              nested |-> parse_devices(NestedUnderData(L)),
              top |-> parse_devices(TopLevelDevices(L)),
              aslist |-> parse_devices(DataAsList(L))]
    /\ PureUnchanged

(***************************************************************************)
(* _parse_events with its try block.  _parse_event_time gives an aware     *)
(* datetime for a date that parses and the naive datetime.min otherwise;   *)
(* sorted() compares the keys, and comparing a naive with an aware         *)
(* datetime raises TypeError.  The except clause logs it, and the function *)
(* returns events_by_device as the grouping loop left it.                  *)
(***************************************************************************)
parse_event_time(at) ==
    IF at.k = "iso" THEN [aware |-> TRUE, t |-> at.wall]
    ELSE [aware |-> FALSE, t |-> 0]

\* sorted(events, key=..., reverse=True) raises: the keys are of both kinds
SortRaises(events) ==
    \E i, j \in 1..Len(events) :
        /\ parse_event_time(events[i].raised_at).aware
        /\ ~parse_event_time(events[j].raised_at).aware

\* the try block ends in an exception (only the logging loop can raise)
ParseEventsError(json) ==
    /\ IsDict(json)
    /\ LET m == parse_events(json)
       IN \E k \in DOMAIN m : SortRaises(m[k])

\* what a call of _parse_events ends in: it returns in every case
parse_events_call(json) ==
    [raised |-> FALSE, error |-> ParseEventsError(json), out |-> parse_events(json)]

PureEvEntries ==
    { Ev(IntV("1"), Iso(1, 0)),
      Ev(IntV("1"), NoTime),
      Ev(StrV("2"), Iso(2, 0)),
      Ev(StrV("1"), Iso(2, 0)),
      Ev(StrV(""), Iso(1, 0)),
      Ev(Null, Iso(1, 0)),
      NonObjEv }

PureEvLists == SeqsUpTo(PureEvEntries, MaxLen)

\* one event per place, so that the place an event came from can be told
TagItemsUnderData == Ev(StrV("a"), Iso(1, 0))
TagItems == Ev(StrV("b"), Iso(1, 0))
TagEvents == Ev(StrV("c"), Iso(1, 0))
TagData == Ev(StrV("d"), Iso(1, 0))

Place(e) == {Absent, Other, ListV(<<>>), ListV(<<e>>)}

\* bodies for _parse_events: data.items over every list; bodies with lists at
\* several places at once; and bodies that are no object or hold no list
PureEvBodies ==
    { TopDict(InnerDict(Absent, ListV(L)), Absent, Absent, Absent) : L \in PureEvLists }
    \cup
    { TopDict(d, Absent, it, ev) :
        d \in {Absent, Other, ListV(<<>>), ListV(<<TagData>>)}
              \cup {InnerDict(Absent, x) : x \in Place(TagItemsUnderData)},
        it \in Place(TagItems), ev \in Place(TagEvents) }
    \cup { TopList }

ParseEventsCall(b) ==
    /\ fn.op = "none"
    /\ fn' = [op |-> "parse_events", body |-> b, res |-> parse_events_call(b)]
    /\ PureUnchanged

(***************************************************************************)
(* RTKkeyEventSensor._update_state: the selection of the latest event of   *)
(* one device from the stored list, and _parse_datetime.                   *)
(***************************************************************************)
\* variant: the parsed time is converted to UTC by its stated offset
parse_datetime_Converting(at) ==
    IF at.k = "iso" THEN [ok |-> TRUE, t |-> at.wall - at.off]
    ELSE [ok |-> FALSE, t |-> 0]

\* _parse_datetime: None for a missing or unparseable date, else the parsed
\* wall-clock time with tzinfo replaced by UTC (replace() keeps the clock
\* reading and drops the stated offset)
parse_datetime(at) ==
    IF at.k = "iso" THEN [ok |-> TRUE, t |-> at.wall] ELSE [ok |-> FALSE, t |-> 0]

\* variant: a later event with an equal time replaces the kept one
LaterTime_OrEqual(event_time, latest_time) == event_time >= latest_time

\* event_time > latest_time
LaterTime(event_time, latest_time) == event_time > latest_time

\* the for loop from position i on; latest_event is kept as its position in
\* the list (0 for None)
RECURSIVE SelectLatest(_, _, _, _)
SelectLatest(device_events, i, latest_event, latest_time) ==
    IF i > Len(device_events)
    THEN [latest_event |-> latest_event, latest_time |-> latest_time]
    ELSE LET event == device_events[i]
             event_time == parse_datetime(event.raised_at)
         IN IF ~event.obj \/ ~event_time.ok
            THEN SelectLatest(device_events, i + 1, latest_event, latest_time)
            ELSE IF latest_event = 0 \/ LaterTime(event_time.t, latest_time)
            THEN SelectLatest(device_events, i + 1, i, event_time.t)
            ELSE SelectLatest(device_events, i + 1, latest_event, latest_time)

NeverOpened == [state |-> "never", event_data |-> 0, time |-> 0]

update_state(device_events) ==
    IF device_events = <<>> THEN NeverOpened
    ELSE LET sel == SelectLatest(device_events, 1, 0, 0)
         IN IF sel.latest_event # 0
            THEN [state |-> "opened", event_data |-> sel.latest_event,
                  time |-> sel.latest_time]
            ELSE NeverOpened

\* the stored events of one device: objects with a device id (what
\* _parse_events keeps), the raise time parseable or not; Iso(w, o) is a
\* timestamp whose text reads clock time w and states the UTC offset o
StoredEvEntries ==
    { Ev(IntV("1"), Iso(1, 0)),
      Ev(IntV("1"), Iso(2, 0)),
      Ev(IntV("1"), Iso(3, 0)),
      Ev(IntV("1"), Iso(2, 2)),
      Ev(IntV("1"), Iso(4, 2)),
      Ev(IntV("1"), NoTime),
      Ev(IntV("1"), BadTime) }

StoredEvLists == SeqsUpTo(StoredEvEntries, MaxLen)

UpdateState(L) ==
    /\ fn.op = "none"
    /\ fn' = [op |-> "update_state", events |-> L, res |-> update_state(L)]
    /\ PureUnchanged

(***************************************************************************)
(* Devices as the entity platforms read them: the capabilities and the     *)
(* three name fields next to id and device_type.                           *)
(***************************************************************************)
\* longest device list handed to the button platform
MaxButtonDevs == 2

NullJ == [t |-> "null"]

\* a capability entry; setup is the JSON value "true", "false" or "absent"
Cap(name, setup) == [obj |-> TRUE, name |-> name, setup |-> setup]
NonObjCap == [obj |-> FALSE, name |-> "", setup |-> "absent"]

Device(id, ty, caps, description, name_by_user, name_by_company) ==
    [obj |-> TRUE, id |-> id, device_type |-> ty, capabilities |-> caps,
     description |-> description, name_by_user |-> name_by_user,
     name_by_company |-> name_by_company]

CapValues ==
    { Absent, NullJ, ListV(<<>>),
      ListV(<<Cap("open_door", "true")>>),
      ListV(<<Cap("open_door", "false")>>),
      ListV(<<Cap("open_door", "absent")>>),
      ListV(<<Cap("call", "true"), Cap("open_door", "true")>>),
      ListV(<<NonObjCap, Cap("open_door", "true")>>),
      ListV(<<Cap("open_door", "true"), NonObjCap>>) }

\* devices of a snapshot (objects of type intercom or gate), told apart by
\* their capabilities
ButtonDevEntries ==
    { Device(IntV("1"), ty, c, Null, Null, Null) :
        ty \in {DEVICE_TYPE_INTERCOM, DEVICE_TYPE_GATE}, c \in CapValues }

ButtonDevLists == SeqsUpTo(ButtonDevEntries, MaxButtonDevs)

(***************************************************************************)
(* button.py: _is_valid_intercom and async_setup_entry                     *)
(***************************************************************************)
\* the for loop over the capabilities: capability.get on an entry that is
\* no object raises AttributeError
RECURSIVE CapabilityLoop(_)
CapabilityLoop(capabilities) ==
    IF capabilities = <<>> THEN Ret(FALSE)
    ELSE LET capability == Head(capabilities)
         IN IF ~capability.obj THEN Raise("AttributeError", <<>>)
            ELSE IF capability.name = "open_door" /\ capability.setup = "true"
            THEN Ret(TRUE)
            ELSE CapabilityLoop(Tail(capabilities))

\* device.get('capabilities', []) is [] only for a missing key; iterating
\* None (or a number) raises TypeError
is_valid_intercom(device) ==
    IF device.device_type \notin {DEVICE_TYPE_INTERCOM, DEVICE_TYPE_GATE}
    THEN Ret(FALSE)
    ELSE IF device.capabilities = Absent THEN CapabilityLoop(<<>>)
    ELSE IF IsList(device.capabilities)
    THEN CapabilityLoop(device.capabilities.items)
    ELSE Raise("TypeError", <<>>)

\* the loop of async_setup_entry from position i on; a button is kept as the
\* position of its device
RECURSIVE ButtonLoop(_, _, _)
ButtonLoop(devs, i, buttons) ==
    IF i > Len(devs) THEN Ret(buttons)
    ELSE IF ~devs[i].obj THEN ButtonLoop(devs, i + 1, buttons)
    ELSE LET valid == is_valid_intercom(devs[i])
         IN IF ~valid.ok THEN valid
            ELSE IF valid.value THEN ButtonLoop(devs, i + 1, Append(buttons, i))
            ELSE ButtonLoop(devs, i + 1, buttons)

\* async_setup_entry of the button platform on the snapshot d: the buttons
\* handed to async_add_entities, or the exception it ends in
button_setup_entry(d) ==
    IF ~d.set \/ d.devices = <<>>
    THEN [raised |-> FALSE, cls |-> "", added |-> FALSE, buttons |-> <<>>]
    ELSE LET res == ButtonLoop(d.devices, 1, <<>>)
         IN IF res.ok
            THEN [raised |-> FALSE, cls |-> "", added |-> TRUE, buttons |-> res.value]
            ELSE [raised |-> TRUE, cls |-> res.cls, added |-> FALSE, buttons |-> <<>>]

\* the sensor platform's loop: a sensor for every object with an id and a
\* type of intercom or gate
RECURSIVE SensorLoop(_, _, _)
SensorLoop(devs, i, sensors) ==
    IF i > Len(devs) THEN sensors
    ELSE IF devs[i].obj /\ Truthy(devs[i].id)
            /\ devs[i].device_type \in {DEVICE_TYPE_INTERCOM, DEVICE_TYPE_GATE}
    THEN SensorLoop(devs, i + 1, Append(sensors, i))
    ELSE SensorLoop(devs, i + 1, sensors)

sensor_setup_entry(d) ==
    IF ~d.set \/ d.devices = <<>>
    THEN [raised |-> FALSE, added |-> FALSE, sensors |-> <<>>]
    ELSE [raised |-> FALSE, added |-> TRUE, sensors |-> SensorLoop(d.devices, 1, <<>>)]

ButtonSetup(L) ==
    /\ fn.op = "none"
    /\ fn' = [op |-> "button_setup", devices |-> L,
              res |-> button_setup_entry(Snapshot(L, EmptyMap)),
              sensors |-> sensor_setup_entry(Snapshot(L, EmptyMap))]
    /\ PureUnchanged

(***************************************************************************)
(* The device name the button and the sensor resolve in __init__.          *)
(***************************************************************************)
\* the labels of _get_device_model_name: "Domofon" stands for the Russian
\* word for intercom, "Vorota" for the one for gate
IntercomLabel == "Domofon"
GateLabel == "Vorota"

get_device_model_name(device_type) ==
    IF device_type = DEVICE_TYPE_INTERCOM THEN IntercomLabel
    ELSE IF device_type = DEVICE_TYPE_GATE THEN GateLabel
    ELSE device_type

Given(v) == [kind |-> "given", s |-> v.s, label |-> "", id |-> ""]
Synthesized(label, id) == [kind |-> "fallback", s |-> "", label |-> label, id |-> id]
Unnamed == [kind |-> "unset", s |-> "", label |-> "", id |-> ""]

\* RTKkeyOpenButton.__init__: description, else name_by_user or
\* name_by_company or the f-string, which always starts with the intercom
\* word
button_device_name(device) ==
    IF ~Truthy(device.id) THEN Unnamed
    ELSE IF Truthy(device.description) THEN Given(device.description)
    ELSE IF Truthy(device.name_by_user) THEN Given(device.name_by_user)
    ELSE IF Truthy(device.name_by_company) THEN Given(device.name_by_company)
    ELSE Synthesized(IntercomLabel, Str(device.id))

\* RTKkeyEventSensor.__init__: one "or" chain with the same f-string
sensor_device_name(device) ==
    IF ~Truthy(device.id) THEN Unnamed
    ELSE IF Truthy(device.description) THEN Given(device.description)
    ELSE IF Truthy(device.name_by_user) THEN Given(device.name_by_user)
    ELSE IF Truthy(device.name_by_company) THEN Given(device.name_by_company)
    ELSE Synthesized(IntercomLabel, Str(device.id))

NameValues == {Null, StrV(""), StrV("Entrance")}

NameDevEntries ==
    { Device(id, ty, Absent, d, u, c) :
        id \in {IntV("42"), Null},
        ty \in {DEVICE_TYPE_INTERCOM, DEVICE_TYPE_GATE},
        d \in {Null, StrV(""), StrV("Lobby")},
        u \in {Null, StrV(""), StrV("Mine")},
        c \in NameValues }

DisplayName(device) ==
    /\ fn.op = "none"
    /\ fn' = [op |-> "display_name", device |-> device,
              button |-> button_device_name(device),
              sensor |-> sensor_device_name(device)]
    /\ PureUnchanged

(***************************************************************************)
(* _parse_devices on bodies that hold something at two of the three places  *)
(* at once, with one device per place so that its origin can be told.      *)
(***************************************************************************)
TagDevUnderData == Dev(StrV("a"), DEVICE_TYPE_INTERCOM)
TagDevTop == Dev(StrV("b"), DEVICE_TYPE_INTERCOM)
TagDevData == Dev(StrV("c"), DEVICE_TYPE_GATE)

CompetingDevBodies ==
    { TopDict(d, dv, Absent, Absent) :
        d \in {Absent, Other, InnerDict(Absent, Absent), InnerDict(Other, Absent),
               InnerDict(ListV(<<TagDevUnderData>>), Absent),
               ListV(<<TagDevData>>)},
        dv \in {Absent, Other, ListV(<<>>), ListV(<<TagDevTop>>)} }

ParseDevicesCall(b) ==
    /\ fn.op = "none"
    /\ fn' = [op |-> "parse_devices", body |-> b, res |-> parse_devices(b)]
    /\ PureUnchanged

PureNext ==
    \/ \E b \in CompetingDevBodies : ParseDevicesCall(b)
    \/ \E L \in RawDevLists : ParseDevicesShapes(L)
    \/ \E b \in PureEvBodies : ParseEventsCall(b)
    \/ \E L \in StoredEvLists : UpdateState(L)
    \/ \E L \in ButtonDevLists : ButtonSetup(L)
    \/ \E device \in NameDevEntries : DisplayName(device)

SpecPure == Init /\ [][PureNext]_allvars

(***************************************************************************)
(* __init__.py, async_setup_entry (SpecSetup): the coordinator is built,   *)
(* the first refresh runs as one cycle of _async_update_data, and only     *)
(* when async_config_entry_first_refresh returns is the coordinator stored *)
(* in hass.data and are the two platforms set up from its snapshot.        *)
(***************************************************************************)
SetupDevEntries ==
    { Device(IntV("1"), DEVICE_TYPE_INTERCOM, ListV(<<Cap("open_door", "true")>>),
             Null, Null, Null),
      Device(IntV("2"), DEVICE_TYPE_GATE, NullJ, Null, Null, Null),
      Device(Null, DEVICE_TYPE_GATE, ListV(<<Cap("open_door", "true")>>),
             Null, Null, Null) }

SetupDevResponses ==
    { Http(200, NestedUnderData(L)) : L \in SeqsUpTo(SetupDevEntries, MaxButtonDevs) }
    \cup { Http(401, Absent), Http(500, Absent), TimedOut }

SetupEvResponses ==
    { Http(200, TopDict(InnerDict(Absent, ListV(<<Ev(IntV("1"), Iso(1, 0))>>)),
                        Absent, Absent, Absent)),
      Http(200, TopDict(InnerDict(Absent,
                                  ListV(<<Ev(IntV("1"), Iso(1, 0)),
                                          Ev(IntV("2"), BadTime),
                                          Ev(IntV("1"), Iso(2, 0))>>)),
                        Absent, Absent, Absent)),
      TimedOut }

\* the entry is set up (again after a set-up that ended not ready): a new
\* coordinator, and the first refresh runs up to the GET of the device list
SetupStart ==
    /\ entry.pc \in {"unloaded", "not_ready"}
    /\ data' = NoData
    /\ devices' = <<>>
    /\ last_update_success' = TRUE
    /\ last_exception' = NoException
    /\ pc' = "devices"
    /\ cyc' = NewCycle
    /\ refresh_requested' = FALSE
    /\ entry' = [NoEntry EXCEPT !.pc = "first_refresh"]
    /\ UNCHANGED <<press, fn, backend, pubs, config>>

\* variant: the first refresh returns whether or not it succeeded
FirstRefreshRaises_Never == FALSE

\* async_config_entry_first_refresh raises ConfigEntryNotReady when the
\* refresh did not succeed
FirstRefreshRaises == ~last_update_success

\* the devices at the positions ix of the list devs
DevicesAt(devs, ix) == [k \in 1..Len(ix) |-> devs[ix[k]]]

\* variant: the events of whichever device comes first in the map
EventsOf_AnyDevice(d, id) ==
    IF d.events = EmptyMap THEN <<>>
    ELSE d.events[CHOOSE k \in DOMAIN d.events : TRUE]

\* events_data.get(str(self.device_id), [])
EventsOf(d, id) ==
    IF Str(id) \in DOMAIN d.events THEN d.events[Str(id)] ELSE <<>>

\* _update_state of every sensor on the snapshot d
SensorStates(sensors, d) ==
    [k \in 1..Len(sensors) |->
        IF ~d.set THEN NeverOpened ELSE update_state(EventsOf(d, sensors[k].id))]

\* variant: an update builds the entities anew from the snapshot
HandleUpdate_Rebuilding(e, d) ==
    LET b == button_setup_entry(d)
        sn == DevicesAt(d.devices, sensor_setup_entry(d).sensors)
    IN [e EXCEPT !.buttons = DevicesAt(d.devices, b.buttons),
                 !.sensors = sn,
                 !.states = SensorStates(sn, d)]

\* the coordinator's listeners run: _handle_coordinator_update of every
\* sensor recomputes its state; no entity is added or removed
HandleUpdate(e, d) == [e EXCEPT !.states = SensorStates(e.sensors, d)]

\* variant: availability does not look at the last refresh
available_IgnoringRefresh(device) == device.id # Null

\* available of a button or sensor
available(device) == last_update_success /\ device.id # Null

\* the first refresh is over: async_setup_entry ends in the exception, or
\* stores the coordinator and forwards the set-up to the button and the
\* sensor platform (a sensor computes its state in __init__)
SetupFinish ==
    /\ entry.pc = "first_refresh"
    /\ pc = "idle"
    /\ IF FirstRefreshRaises
       THEN entry' = [entry EXCEPT !.pc = "not_ready"]
       ELSE LET sn == DevicesAt(data.devices, sensor_setup_entry(data).sensors)
            IN entry' = [pc |-> "loaded", registered |-> TRUE,
                         buttons |-> DevicesAt(data.devices,
                                               button_setup_entry(data).buttons),
                         sensors |-> sn,
                         states |-> SensorStates(sn, data),
                         button_error |-> button_setup_entry(data).raised]
    /\ UNCHANGED <<vars, fn, backend, pubs, config>>

\* a scheduled refresh of the loaded entry
Tick ==
    /\ entry.pc = "loaded"
    /\ RefreshStart
    /\ UNCHANGED aux

\* the entry after a step of a cycle: when the cycle of a loaded entry ends,
\* the base class calls the listeners
AfterCycle ==
    IF entry.pc = "loaded" /\ pc' = "idle" THEN HandleUpdate(entry, data') ELSE entry

SetupDevicesResponse(r) ==
    /\ DevicesResponse(r)
    /\ entry' = AfterCycle
    /\ UNCHANGED <<fn, backend, pubs, config>>

SetupEventsResponse(r) ==
    /\ EventsResponse(r)
    /\ entry' = AfterCycle
    /\ UNCHANGED <<fn, backend, pubs, config>>

SetupNext ==
    \/ SetupStart
    \/ \E r \in SetupDevResponses : SetupDevicesResponse(r)
    \/ \E r \in SetupEvResponses : SetupEventsResponse(r)
    \/ SetupFinish
    \/ Tick

SpecSetup == Init /\ [][SetupNext]_allvars

(***************************************************************************)
(* Refreshes against a backend that does not change (SpecIdem): the two    *)
(* listings are answered the same way in every cycle, and every snapshot   *)
(* that is published is recorded in pubs.                                  *)
(***************************************************************************)
\* refreshes recorded
MaxPubs == 2

IdemInit ==
    /\ data = NoData
    /\ devices = <<>>
    /\ last_update_success = TRUE
    /\ last_exception = NoException
    /\ pc = "idle"
    /\ cyc = NewCycle
    /\ refresh_requested = FALSE
    /\ press = NoPress
    /\ fn = NoCall
    /\ entry = NoEntry
    /\ backend \in [dev : DevResponses, ev : EvResponses]
    /\ pubs = <<>>
    /\ config = DefaultConfig

\* the cycle ended in a published snapshot
Recorded == IF pc' = "idle" /\ last_update_success' THEN Append(pubs, data') ELSE pubs

IdemRefreshStart ==
    /\ Len(pubs) < MaxPubs
    /\ RefreshStart
    /\ UNCHANGED aux

IdemDevicesResponse ==
    /\ DevicesResponse(backend.dev)
    /\ pubs' = Recorded
    /\ UNCHANGED <<fn, entry, backend, config>>

IdemEventsResponse ==
    /\ EventsResponse(backend.ev)
    /\ pubs' = Recorded
    /\ UNCHANGED <<fn, entry, backend, config>>

IdemNext ==
    \/ IdemRefreshStart
    \/ IdemDevicesResponse
    \/ IdemEventsResponse

SpecIdem == IdemInit /\ [][IdemNext]_allvars

(***************************************************************************)
(* config_flow.py, re-authentication (SpecReauth): the user submits a      *)
(* token, validate_auth makes its test call, and the stored entry data is  *)
(* updated.  fn records the submission and the data stored before it.      *)
(***************************************************************************)
Tokens == {"t1", "t2", "t3"}

\* data an entry can hold: async_step_user always stores an interval (the
\* form's value, 1..1440, or the default); a re-authentication can leave one
\* without
StoredConfigs ==
    { Config(tok, i) : tok \in Tokens,
                       i \in {Interval(1), Interval(DEFAULT_UPDATE_INTERVAL),
                              Interval(1440)} }

\* answers of the GET of validate_auth
AuthResponses == { Http(st, Absent) : st \in {200, 401, 500} } \cup { TimedOut, ConnErr }

\* validate_auth: True on 200, InvalidAuth on 401, CannotConnect on any other
\* status or a client error; a timeout is no ClientError and leaves as it is
validate_auth(r) ==
    IF r.kind = "timeout" THEN Raise("TimeoutError", <<>>)
    ELSE IF r.kind = "connerr" THEN Raise("CannotConnect", <<>>)
    ELSE IF r.status = 200 THEN Ret(TRUE)
    ELSE IF r.status = 401 THEN Raise("InvalidAuth", <<>>)
    ELSE Raise("CannotConnect", <<>>)

\* the errors["base"] of the except clauses
ReauthError(e) ==
    IF e.cls = "CannotConnect" THEN "cannot_connect"
    ELSE IF e.cls = "InvalidAuth" THEN "invalid_auth"
    ELSE "unknown"

\* async_update_entry(existing_entry, data=user_input): the stored data
\* becomes the submitted form, which holds the token only
ReauthData(old, user_input) == Config(user_input.bearer_token, Absent)

\* __init__.py: entry.data.get(CONF_UPDATE_INTERVAL, DEFAULT_UPDATE_INTERVAL)
update_interval(cfg) ==
    IF cfg.update_interval = Absent THEN DEFAULT_UPDATE_INTERVAL
    ELSE cfg.update_interval.n

ReauthInit ==
    /\ data = NoData
    /\ devices = <<>>
    /\ last_update_success = TRUE
    /\ last_exception = NoException
    /\ pc = "idle"
    /\ cyc = NewCycle
    /\ refresh_requested = FALSE
    /\ press = NoPress
    /\ fn = NoCall
    /\ entry = NoEntry
    /\ backend = NoBackend
    /\ pubs = <<>>
    /\ config \in StoredConfigs

\* async_step_reauth_confirm with a submitted form.  existing is what
\* async_set_unique_id(self.unique_id) returns, which the host decides: the
\* entry, or None (async_step_user sets no unique id)
ReauthConfirm(token, r, existing) ==
    /\ LET user_input == [bearer_token |-> token]
           v == validate_auth(r)
       IN IF ~v.ok
          THEN /\ fn' = [op |-> "reauth", before |-> config, token |-> token,
                         valid |-> FALSE, existing |-> existing,
                         result |-> "form", error |-> ReauthError(v)]
               /\ UNCHANGED config
          ELSE IF existing
          THEN /\ config' = ReauthData(config, user_input)
               /\ fn' = [op |-> "reauth", before |-> config, token |-> token,
                         valid |-> TRUE, existing |-> existing,
                         result |-> "reauth_successful", error |-> ""]
          ELSE /\ fn' = [op |-> "reauth", before |-> config, token |-> token,
                         valid |-> TRUE, existing |-> existing,
                         result |-> "form", error |-> ""]
               /\ UNCHANGED config
    /\ UNCHANGED <<vars, entry, backend, pubs>>

ReauthNext ==
    \E token \in Tokens, r \in AuthResponses, existing \in BOOLEAN :
        ReauthConfirm(token, r, existing)

SpecReauth == ReauthInit /\ [][ReauthNext]_allvars

(***************************************************************************)
(* Properties.                                                             *)
(***************************************************************************)
\* device-listing answers that the code treats as a failed device phase
DevFailures == {"timeout", "connerr", "http401", "httpOther", "badjson", "nonobject"}
\* event-listing answers that are a failed event phase
EvFailures ==
    {"timeout", "connerr", "http400", "http401", "httpOther", "badjson", "nonobject"}

\* C1: when the device-listing call answers 401, the refresh ends with an
\* authentication error that is not the generic UpdateFailed, and the
\* published snapshot stays as it was.
C1_Device401_Is_AuthError ==
    [][(pc = "devices" /\ cyc'.dev = "http401")
        => /\ ~last_update_success'
           /\ last_exception'.cls # "UpdateFailed"
           /\ data' = data]_vars

\* C2: when the device phase succeeded with a non-empty device list and the
\* event phase failed (non-200 status, timeout, connection error, undecodable
\* or non-object body), the refresh succeeds and the published snapshot holds
\* exactly the fetched devices and an empty event map.
C2_EventFailure_Degrades ==
    (pc = "idle" /\ cyc.dev = "ok" /\ cyc.devices # <<>> /\ cyc.ev \in EvFailures)
        => /\ last_update_success
           /\ last_exception = NoException
           /\ data = Snapshot(cyc.devices, EmptyMap)

C2_Witness ==
    /\ pc = "idle"
    /\ cyc.ev = "http400"
    /\ Len(cyc.devices) = 2
    /\ data = Snapshot(cyc.devices, EmptyMap)

\* C3: a failed device phase (non-200 status, timeout, connection error,
\* undecodable or non-object body) ends the refresh with UpdateFailed, leaves
\* the published snapshot and the devices attribute as they were, and issues
\* no event-listing request in that cycle.
C3_DeviceFailure_Aborts ==
    [][(pc = "devices" /\ cyc'.dev \in DevFailures)
        => /\ pc' = "idle"
           /\ ~last_update_success'
           /\ last_exception'.cls = "UpdateFailed"
           /\ data' = data
           /\ devices' = devices
           /\ cyc'.reqs = 0]_vars

C3_Witness ==
    /\ pc = "idle"
    /\ cyc.dev \in DevFailures
    /\ ~last_update_success
    /\ data.set
    /\ data.devices # <<>>
    /\ data.events # EmptyMap

\* C4: a 401 answer at either phase of a refresh, the event-listing call
\* included, is never swallowed into a successful refresh (stated in its
\* weakest reading: the refresh that saw the 401 at least fails).
C4_Unauthorized_Not_Swallowed ==
    (pc = "idle" /\ (cyc.dev = "http401" \/ cyc.ev = "http401"))
        => ~last_update_success

\* C5: in every state the coordinator's devices attribute equals the device
\* list of the published snapshot.
C5_Devices_Attribute_Is_Published ==
    devices = data.devices

C8_Failure_Is_ActionError ==
    /\ press.resp = "http401" => press.end = "Unauthorized"
    /\ press.resp = "httpOther" => press.end = "DeviceRejected"
    /\ press.resp = "timeout" => press.end = "Timeout"

\* C9: a device-listing body that is an object with no list at any of the
\* recognized places fails the refresh.
C9_Unrecognized_Shape_Fails ==
    (pc = "idle" /\ cyc.dev = "noshape") => ~last_update_success

\* C10: every device of the published snapshot has a device type of intercom
\* or gate and a non-empty id.
C10_Published_Devices_Valid ==
    \A i \in 1..Len(data.devices) :
        /\ data.devices[i].device_type \in {DEVICE_TYPE_INTERCOM, DEVICE_TYPE_GATE}
        /\ data.devices[i].id.t # "null"
        /\ data.devices[i].id.s # ""

\* C11: for one raw device list L, _parse_devices returns the same device
\* sequence whether L arrives as {data: {devices: L}}, {devices: L} or
\* {data: L}.
C11_Same_Devices_In_Three_Shapes ==
    fn.op = "parse_devices_shapes"
        => /\ fn.nested.ok /\ fn.top.ok /\ fn.aslist.ok
           /\ fn.nested.value = fn.top.value
           /\ fn.top.value = fn.aslist.value

C11_Witness ==
    /\ fn.op = "parse_devices_shapes"
    /\ Len(fn.raw) = 2
    /\ Len(fn.aslist.value) = 1
    /\ fn.nested.value = fn.aslist.value

\* C12: _parse_events never raises, and whenever its input is no object or
\* holds no events, or an error occurs while it parses (also while it orders a
\* device's events by raise time), the mapping it returns is empty.
C12_Error_Gives_Empty_Mapping ==
    fn.op = "parse_events"
        => /\ ~fn.res.raised
           /\ (~IsDict(fn.body) \/ fn.res.error) => fn.res.out = EmptyMap

(***************************************************************************)
(* The places _parse_events looks at, as <<matches, list>> pairs in the    *)
(* order data.items, items, events, data-as-list.                          *)
(***************************************************************************)
EventPlaces(b) ==
    << IF IsDict(b.data) /\ IsList(b.data.items) THEN b.data.items ELSE Absent,
       b.items, b.events, b.data >>

\* the list of the first place that matches, <<>> if none does; a place
\* matches when it holds a list, and data.items (place 1) with an empty list
\* only if emptyDataItemsMatches
FirstMatching(b, emptyDataItemsMatches) ==
    LET P == EventPlaces(b)
        M == {i \in 1..4 : /\ IsList(P[i])
                           /\ (i = 1 /\ P[i].items = <<>>) => emptyDataItemsMatches}
    IN IF M = {} THEN <<>>
       ELSE P[CHOOSE i \in M : \A j \in M : i <= j].items

\* C13 as stated: the first place that holds a list wins, even if the list
\* is empty; later places never contribute.
C13_First_List_Wins_Even_Empty ==
    (fn.op = "parse_events" /\ IsDict(fn.body))
        => fn.res.out = GroupEvents(FirstMatching(fn.body, TRUE), EmptyMap)

\* C13: the places are probed in the order data.items, items, events,
\* data-as-list; data.items matches only with a non-empty list, every other
\* place with any list; only the first matching place contributes events.
C13_First_Effective_List_Wins ==
    (fn.op = "parse_events" /\ IsDict(fn.body))
        => fn.res.out =
             GroupEvents(FirstMatching(fn.body, FALSE), EmptyMap)

\* data.items is an empty list; items and events both hold an event: the
\* event under items is the only one returned
C13_Witness ==
    /\ fn.op = "parse_events"
    /\ IsDict(fn.body) /\ IsDict(fn.body.data)
    /\ fn.body.data.items = ListV(<<>>)
    /\ fn.body.items = ListV(<<TagItems>>)
    /\ fn.body.events = ListV(<<TagEvents>>)
    /\ DOMAIN fn.res.out = {Str(TagItems.device_id)}

\* C14: the sensor selects the event with the greatest raise time among the
\* events whose raise time parses, the earliest of them in list order when
\* several share it, and nothing ("never opened") when the list is empty or no
\* raise time parses; an event whose raise time does not parse is never
\* selected.
C14_Latest_Event_Selected ==
    fn.op = "update_state"
        => LET L == fn.events
               T(i) == parse_datetime(L[i].raised_at)
               P == {i \in 1..Len(L) : T(i).ok}
               sel == fn.res.event_data
           IN IF P = {}
              THEN fn.res = NeverOpened
              ELSE /\ fn.res.state = "opened"
                   /\ sel \in P
                   /\ fn.res.time = T(sel).t
                   /\ \A j \in P : /\ T(j).t <= T(sel).t
                                   /\ T(j).t = T(sel).t => sel <= j

\* three stored events: the first and the last share the greatest time, the
\* middle one has no parseable time; the first is selected
C14_Witness ==
    /\ fn.op = "update_state"
    /\ Len(fn.events) = 3
    /\ fn.events[1].raised_at = Iso(2, 0)
    /\ fn.events[2].raised_at = BadTime
    /\ fn.events[3].raised_at = Iso(2, 0)
    /\ fn.res.event_data = 1

\* the device has a capability named open_door whose setup flag is true
Actionable(device) ==
    /\ IsList(device.capabilities)
    /\ \E k \in 1..Len(device.capabilities.items) :
          LET capability == device.capabilities.items[k]
          IN capability.obj /\ capability.name = "open_door"
             /\ capability.setup = "true"

\* C17: a device of the snapshot gets a button if and only if its capability
\* list holds a capability named open_door whose flag is true.
C17_Button_Iff_Actionable ==
    fn.op = "button_setup"
        => \A i \in 1..Len(fn.devices) :
              (\E k \in 1..Len(fn.res.buttons) : fn.res.buttons[k] = i)
                  <=> Actionable(fn.devices[i])

\* the capabilities are a list of objects (or the key is missing)
WellFormed(device) ==
    \/ device.capabilities = Absent
    \/ /\ IsList(device.capabilities)
       /\ \A k \in 1..Len(device.capabilities.items) :
             device.capabilities.items[k].obj

\* C18: a device whose capabilities are null or hold an entry that is no
\* object never aborts the set-up of the buttons: the set-up ends without an
\* exception and hands over the buttons of the well-formed actionable devices.
C18_Malformed_Device_Never_Aborts ==
    fn.op = "button_setup"
        => /\ ~fn.res.raised
           /\ \A i \in 1..Len(fn.devices) :
                 (WellFormed(fn.devices[i]) /\ Actionable(fn.devices[i]))
                     => \E k \in 1..Len(fn.res.buttons) : fn.res.buttons[k] = i

\* description, name_by_user, name_by_company in that order, else the
\* label of the device's own type followed by its id
ExpectedName(device) ==
    IF Truthy(device.description) THEN Given(device.description)
    ELSE IF Truthy(device.name_by_user) THEN Given(device.name_by_user)
    ELSE IF Truthy(device.name_by_company) THEN Given(device.name_by_company)
    ELSE Synthesized(get_device_model_name(device.device_type), Str(device.id))

\* C20: for a device with an id, the button and the sensor both resolve the
\* first non-empty of description, name_by_user, name_by_company, and when
\* all three are empty the label of the device's own type followed by its id.
C20_Display_Name ==
    (fn.op = "display_name" /\ Truthy(fn.device.id))
        => /\ fn.button = ExpectedName(fn.device)
           /\ fn.sensor = fn.button

\* C15: when the normalized device list of a cycle is empty, the cycle has
\* ended in success with the snapshot of no devices and no events published,
\* and without a request for events.
C15_Empty_Device_List_Succeeds ==
    (cyc.dev \in {"ok", "noshape"} /\ cyc.devices = <<>>)
        => /\ pc = "idle"
           /\ last_update_success
           /\ data = Snapshot(<<>>, EmptyMap)
           /\ cyc.reqs = 0
           /\ cyc.ev = "none"

C15_Witness ==
    /\ cyc.dev = "ok"
    /\ cyc.devices = <<>>
    /\ devices = <<>>
    /\ data = Snapshot(<<>>, EmptyMap)
    /\ cyc.reqs = 0

\* C16: the coordinator is stored for the platforms and buttons or sensors
\* exist only when a refresh has published a snapshot and the entry is
\* loaded; a set-up whose first refresh failed has stored nothing, has added
\* no entity and holds no snapshot.
C16_Usable_Only_After_First_Refresh ==
    /\ (entry.registered \/ entry.buttons # <<>> \/ entry.sensors # <<>>
            \/ entry.pc = "loaded")
          => (data.set /\ entry.pc = "loaded" /\ entry.registered)
    /\ entry.pc = "not_ready"
          => (~entry.registered /\ entry.buttons = <<>> /\ entry.sensors = <<>>
              /\ ~data.set /\ ~last_update_success)

\* a first refresh failed, the set-up was tried again and its first refresh
\* succeeded: the entry is loaded with a button and a sensor
C16_Witness ==
    /\ entry.pc = "loaded"
    /\ entry.registered
    /\ entry.buttons # <<>>
    /\ entry.sensors # <<>>
    /\ data.set

C21_Later_Shape_Not_Suppressed ==
    (/\ fn.op = "parse_devices"
     /\ IsDict(fn.body.data) /\ ~IsList(fn.body.data.devices)
     /\ IsList(fn.body.devices))
        => /\ fn.res.ok
           /\ fn.res.value = SelectSeq(fn.body.devices.items, ValidDevice)

\* the intercom/gate devices of a list that have an id
HasId(device) ==
    /\ Truthy(device.id)
    /\ device.device_type \in {DEVICE_TYPE_INTERCOM, DEVICE_TYPE_GATE}

\* C22: in every cycle the request for events is issued only after the device
\* list of the cycle was fetched successfully, at most once, and it carries
\* the ids of all devices of the cycle that have an id, in one request.
C22_Events_After_Devices_Once_All_Ids ==
    /\ cyc.reqs <= 1
    /\ pc = "devices" => cyc.reqs = 0
    /\ (cyc.reqs = 1 \/ pc = "events")
          => /\ cyc.dev = "ok"
             /\ cyc.reqs = 1
             /\ LET with == SelectSeq(cyc.devices, HasId)
                IN /\ with # <<>>
                   /\ cyc.ids = [i \in 1..Len(with) |-> Str(with[i].id)]

\* a cycle with two devices that have an id: one request carries both ids
C22_Witness ==
    /\ pc = "events"
    /\ cyc.reqs = 1
    /\ Len(cyc.devices) = 2
    /\ cyc.ids = <<"1", "2">>

\* C23: the mapping _parse_events returns holds, under the string form of a
\* device id, exactly the event objects of the response with that id, in
\* response order; entries that are no objects or have no id (null, or the
\* empty string) are under no key, and no key maps to an empty list.
C23_Events_Grouped_By_Device ==
    (fn.op = "parse_events" /\ IsDict(fn.body))
        => LET L == FirstMatching(fn.body, FALSE)
               out == fn.res.out
               Kept(e) == e.obj /\ Truthy(e.device_id)
               keys == {Str(L[i].device_id) : i \in {j \in 1..Len(L) : Kept(L[j])}}
           IN /\ DOMAIN out = keys
              /\ \A k \in DOMAIN out :
                    LET Of(e) == Kept(e) /\ Str(e.device_id) = k
                    IN out[k] = SelectSeq(L, Of) /\ out[k] # <<>>

\* ids 1 and "1" fall under the one key "1" in response order, the event
\* without an id between them is dropped
C23_Witness ==
    /\ fn.op = "parse_events"
    /\ IsDict(fn.body) /\ IsDict(fn.body.data) /\ IsList(fn.body.data.items)
    /\ fn.body.data.items.items =
          <<Ev(StrV("1"), Iso(2, 0)), Ev(Null, Iso(1, 0)), Ev(IntV("1"), Iso(1, 0))>>
    /\ fn.res.out = [k \in {"1"} |-> <<Ev(StrV("1"), Iso(2, 0)), Ev(IntV("1"), Iso(1, 0))>>]

\* C24: of two stored events with parseable timestamps the sensor selects
\* the one whose timestamp text reads the later clock time (the first on
\* equal readings), whatever offsets the two timestamps state.
C24_Wall_Clock_Compared_As_UTC ==
    (/\ fn.op = "update_state"
     /\ Len(fn.events) = 2
     /\ fn.events[1].raised_at.k = "iso" /\ fn.events[2].raised_at.k = "iso")
        => /\ fn.res.state = "opened"
           /\ fn.res.event_data =
                 (IF fn.events[2].raised_at.wall > fn.events[1].raised_at.wall
                  THEN 2 ELSE 1)
           /\ fn.res.time = fn.events[fn.res.event_data].raised_at.wall

\* the second timestamp reads the later clock time but, by its offset, names
\* the earlier instant: it is selected
C24_Witness ==
    /\ fn.op = "update_state"
    /\ Len(fn.events) = 2
    /\ fn.events[1].raised_at = Iso(3, 0)
    /\ fn.events[2].raised_at = Iso(4, 2)
    /\ fn.res.event_data = 2

\* C25: a re-authentication whose validation succeeded has stored the
\* submitted token and left the stored update interval as it was; one whose
\* validation failed has left the stored data as they were.
C25_Reauth_Replaces_Token_Only ==
    fn.op = "reauth"
        => IF fn.valid
           THEN /\ config.bearer_token = fn.token
                /\ config.update_interval = fn.before.update_interval
                /\ update_interval(config) = update_interval(fn.before)
           ELSE config = fn.before

EntityDevices ==
    {entry.buttons[k] : k \in 1..Len(entry.buttons)}
        \cup {entry.sensors[k] : k \in 1..Len(entry.sensors)}

\* the refresh that ended last succeeded (only the device phase can fail)
LastRefreshSucceeded == cyc.dev \in {"ok", "noshape"}

\* C27: between refreshes, a button or sensor of the loaded entry is
\* available exactly when the last refresh succeeded and its device id is
\* not null; after a failed refresh the earlier snapshot is still held.
C27_Available_Iff_Last_Refresh_Succeeded ==
    (entry.pc = "loaded" /\ pc = "idle")
        => /\ \A device \in EntityDevices :
                 available(device) <=> (LastRefreshSucceeded /\ device.id # Null)
           /\ ~LastRefreshSucceeded => data.set

\* the last refresh failed: a button with an id is unavailable while the
\* earlier snapshot with its devices is still published
C27_Witness ==
    /\ entry.pc = "loaded"
    /\ pc = "idle"
    /\ cyc.dev = "http401"
    /\ data.set /\ data.devices # <<>>
    /\ \E device \in EntityDevices : device.id # Null /\ ~available(device)
    /\ \E k \in 1..Len(entry.buttons) : entry.buttons[k].id = Null

\* C28: while the entry stays loaded, no step adds or removes a button or a
\* sensor, whatever devices the later snapshots hold.
C28_Entities_Fixed_By_First_Snapshot ==
    [][(entry.pc = "loaded" /\ entry'.pc = "loaded")
          => (entry'.buttons = entry.buttons /\ entry'.sensors = entry.sensors)]_allvars

\* the published snapshot holds a device with an id that has no sensor, and
\* the device of a sensor is not in the snapshot
C28_Witness ==
    /\ entry.pc = "loaded"
    /\ pc = "idle"
    /\ \E i \in 1..Len(data.devices) :
          /\ Truthy(data.devices[i].id)
          /\ \A k \in 1..Len(entry.sensors) : entry.sensors[k] # data.devices[i]
    /\ \E k \in 1..Len(entry.sensors) :
          \A i \in 1..Len(data.devices) : data.devices[i] # entry.sensors[k]

=============================================================================
